---- MODULE Spec2Model ----
(***************************************************************************)
(* A model of the movie store of greenlight (internal/data/movies.go):     *)
(* MovieModel.Insert, Get, Update and Delete, called by concurrent request *)
(* handlers against one PostgreSQL table.  A call is three steps: the      *)
(* handler issues its statement, the backend executes the statement        *)
(* atomically at some later moment, and the handler scans the result and   *)
(* returns.  Time passes by Tick; only Get carries a context deadline.     *)
(***************************************************************************)
EXTENDS Integers, Sequences, FiniteSets, TLC

\* ------------------------------------------------------------ bounds
\* The concurrent request handlers.
Procs == {"h1", "h2"}
\* Statements the handlers issue to the backend in one run.
MaxCalls == 3
\* The readings of the database clock that an INSERT may see.
Timestamps == {2}

\* ------------------------------------------------- program constants
\* SELECT pg_sleep(10), ...
PgSleep == 10
\* Mutant of GetTimeout: the deadline set past the backend's sleep.
GetTimeout_AfterSleep == PgSleep + 1
\* context.WithTimeout(context.Background(), 3*time.Second)
GetTimeout == 3

ErrRecordNotFound == "record not found"
ErrEditConflict == "edit conflict"
DeadlineExceeded == "context deadline exceeded"
NoErr == "nil"
\* An error of the driver or the connection that is none of the above.
BackendErr == "driver: bad connection"

\* ------------------------------------------------------------ inputs
\* The field values handlers submit (title, year, runtime, genres).
Inputs ==
    { [Title |-> "Casablanca", Year |-> 1942, Runtime |-> 102,
       Genres |-> <<"drama", "romance">>],
      [Title |-> "Moana", Year |-> 2016, Runtime |-> 107,
       Genres |-> <<"animation">>] }
\* The ids handlers pass to Get and Delete, and the ids and versions of the
\* records they pass to Update.
ArgIds == {-1, 0, 1, 2}
UpdateIds == {1, 2}
UpdateVersions == {1, 2}

\* ------------------------------------------------------------- types
\* The zero value of Movie.
ZeroMovie ==
    [ID |-> 0, CreatedAt |-> 0, Title |-> "", Year |-> 0, Runtime |-> 0,
     Genres |-> <<>>, Version |-> 0]

Movie(id, createdAt, f, version) ==
    [ID |-> id, CreatedAt |-> createdAt, Title |-> f.Title, Year |-> f.Year,
     Runtime |-> f.Runtime, Genres |-> f.Genres, Version |-> version]

RECURSIVE JoinComma(_)
JoinComma(a) ==
    IF Len(a) = 0 THEN <<>>
    ELSE IF Len(a) = 1 THEN <<a[1]>>
    ELSE <<a[1], ",">> \o JoinComma(Tail(a))

\* pq.Array(genres) as a statement argument: the text[] literal.
PqArrayValue(a) == <<"{">> \o JoinComma(a) \o <<"}">>

\* pq.Array(&genres) as a Scan destination: the literal read back.
PqArrayScan(s) ==
    LET inner == SubSeq(s, 2, Len(s) - 1)
    IN  [i \in 1..((Len(inner) + 1) \div 2) |-> inner[2 * i - 1]]

\* A row of the movies table.
Row(id, createdAt, title, year, runtime, genres, version) ==
    [id |-> id, created_at |-> createdAt, title |-> title, year |-> year,
     runtime |-> runtime, genres |-> genres, version |-> version]

NoRow == Row(0, 0, "", 0, 0, <<>>, 0)

NoRes == [kind |-> "none", row |-> NoRow, n |-> 0]
NoArgs == <<>>

\* validator.New(): a Validator with an empty Errors map.
NewValidator == [Errors |-> << >>]

\* A handler that is not in a call.  Beside the call's own state (pc, op, the
\* id or record passed, the statement's arguments, the backend's result, the
\* returned error and whether the returned pointer is nil) a handler keeps
\* what the properties are stated on: the row of its id when the call was
\* made (atCall; gone: the id had been assigned and its row deleted, for an
\* Insert: some id had been assigned and its row deleted), right
\* before and right after its statement executed (pre, post), and for a Get
\* the time on its context's timer (elapsed) and the time its statement
\* executed (execAt, -1: not executed).  A handler that validates a record
\* holds the validator (v) and the year it read off the clock (nowYear).
Idle ==
    [pc |-> "idle", op |-> "none", id |-> 0, args |-> NoArgs,
     movie |-> ZeroMovie, res |-> NoRes, err |-> NoErr, retNil |-> TRUE,
     elapsed |-> 0, execAt |-> -1, atCall |-> NoRow, gone |-> FALSE,
     pre |-> NoRow, post |-> NoRow, v |-> NewValidator, nowYear |-> 0]

VARIABLES
    movies,        \* the table: id -> row, for the rows that exist
    nextId,        \* the id sequence of the table (bigserial)
    h,             \* the handlers: h[p] is handler p's call
    backendCalls,  \* statements issued to the backend so far
    nUpd           \* per existing row, the Updates that succeeded on it

vars == <<movies, nextId, h, backendCalls, nUpd>>

InFlight(p) == h[p].pc \in {"sent", "ready"}

Lookup(id) == IF id \in DOMAIN movies THEN movies[id] ELSE NoRow

\* The id was assigned to a row that has been deleted since.
Gone(id) == id >= 1 /\ id < nextId /\ id \notin DOMAIN movies

\* The time on a Get's timer at which the backend delivers its result: a
\* matching row after the sleep, the absence of one at once.
ReadyAt(c) ==
    IF c.res.kind = "row" THEN c.execAt + PgSleep ELSE c.execAt

\* --------------------------------------------------------------- Init
InitFields == CHOOSE f \in Inputs : f.Title = "Casablanca"

InitRow(f, version) ==
    Row(1, 1, f.Title, f.Year, f.Runtime, PqArrayValue(f.Genres), version)

\* The table as the program finds it: empty, or holding one row as inserted.
Init ==
    /\ \E t \in {"empty", "one"} :
          /\ movies = IF t = "one" THEN (1 :> InitRow(InitFields, 1)) ELSE << >>
          /\ nextId = IF t = "one" THEN 2 ELSE 1
          /\ nUpd = IF t = "one" THEN (1 :> 0) ELSE << >>
    /\ h = [p \in Procs |-> Idle]
    /\ backendCalls = 0

\* ------------------------------------------------------------- Insert
\* Insert, to the point where the statement is with the backend.
CallInsert(p) ==
    /\ h[p].pc = "idle"
    /\ backendCalls < MaxCalls
    /\ \E f \in Inputs :
          h' = [h EXCEPT ![p] =
                  [Idle EXCEPT !.pc = "sent", !.op = "Insert",
                               !.gone = (\E id \in 1..nextId : Gone(id)),
                               !.movie = Movie(0, 0, f, 0),
                               !.args = <<f.Title, f.Year, f.Runtime,
                                          PqArrayValue(f.Genres)>>]]
    /\ backendCalls' = backendCalls + 1
    /\ UNCHANGED <<movies, nextId, nUpd>>

\* The greatest id of the rows that exist, 0 when there is none.
MaxRowId == IF DOMAIN movies = {} THEN 0
            ELSE CHOOSE i \in DOMAIN movies : \A j \in DOMAIN movies : j <= i

\* Mutant of BackendInsert: the id is one above the greatest id in the table
\* instead of the next value of the sequence.
BackendInsert_MaxPlusOne(p) ==
    /\ h[p].pc = "sent"
    /\ h[p].op = "Insert"
    /\ \E t \in Timestamps :
          LET a == h[p].args
              id == MaxRowId + 1
              row == Row(id, t, a[1], a[2], a[3], a[4], 1)
          IN  /\ movies' = (id :> row) @@ movies
              /\ nUpd' = (id :> 0) @@ nUpd
              /\ h' = [h EXCEPT
                         ![p].pc = "ready", ![p].id = id,
                         ![p].post = row,
                         ![p].res = [kind |-> "row", row |-> row, n |-> 1]]
    /\ nextId' = nextId + 1
    /\ UNCHANGED backendCalls

\* INSERT INTO movies (title, year, runtime, genres) VALUES ($1, $2, $3, $4)
\* RETURNING id, created_at, version
BackendInsert(p) ==
    /\ h[p].pc = "sent"
    /\ h[p].op = "Insert"
    /\ \E t \in Timestamps :
          LET a == h[p].args
              row == Row(nextId, t, a[1], a[2], a[3], a[4], 1)
          IN  /\ movies' = (nextId :> row) @@ movies
              /\ nUpd' = (nextId :> 0) @@ nUpd
              /\ h' = [h EXCEPT
                         ![p].pc = "ready", ![p].id = nextId,
                         ![p].post = row,
                         ![p].res = [kind |-> "row", row |-> row, n |-> 1]]
    /\ nextId' = nextId + 1
    /\ UNCHANGED backendCalls

\* Mutant of ReturnInsert: the version is not scanned.
ReturnInsert_NoVersion(p) ==
    /\ h[p].pc = "ready"
    /\ h[p].op = "Insert"
    /\ h' = [h EXCEPT ![p].pc = "done",
                      ![p].movie.ID =
                          IF h[p].res.kind = "error" THEN @
                          ELSE h[p].res.row.id,
                      ![p].movie.CreatedAt =
                          IF h[p].res.kind = "error" THEN @
                          ELSE h[p].res.row.created_at,
                      ![p].retNil = FALSE,
                      ![p].err = IF h[p].res.kind = "error"
                                 THEN BackendErr ELSE NoErr]
    /\ UNCHANGED <<movies, nextId, backendCalls, nUpd>>

\* .Scan(&movie.ID, &movie.CreatedAt, &movie.Version) and the return.
ReturnInsert(p) ==
    /\ h[p].pc = "ready"
    /\ h[p].op = "Insert"
    /\ h' = [h EXCEPT ![p].pc = "done",
                      ![p].movie.ID =
                          IF h[p].res.kind = "error" THEN @
                          ELSE h[p].res.row.id,
                      ![p].movie.CreatedAt =
                          IF h[p].res.kind = "error" THEN @
                          ELSE h[p].res.row.created_at,
                      ![p].movie.Version =
                          IF h[p].res.kind = "error" THEN @
                          ELSE h[p].res.row.version,
                      ![p].retNil = FALSE,
                      ![p].err = IF h[p].res.kind = "error"
                                 THEN BackendErr ELSE NoErr]
    /\ UNCHANGED <<movies, nextId, backendCalls, nUpd>>

\* ---------------------------------------------------------------- Get
\* Mutant of CallGet: no check of the id.
CallGet_NoIdCheck(p) ==
    /\ h[p].pc = "idle"
    /\ backendCalls < MaxCalls
    /\ \E id \in ArgIds :
          h' = [h EXCEPT ![p] =
                  [Idle EXCEPT !.pc = "sent", !.op = "Get", !.id = id,
                               !.atCall = Lookup(id), !.gone = Gone(id)]]
    /\ backendCalls' = backendCalls + 1
    /\ UNCHANGED <<movies, nextId, nUpd>>

\* Get, to the point where the statement is with the backend; an id below 1
\* returns at once.
CallGet(p) ==
    /\ h[p].pc = "idle"
    /\ \E id \in ArgIds :
          IF id < 1
          THEN /\ h' = [h EXCEPT ![p] =
                          [Idle EXCEPT !.pc = "done", !.op = "Get", !.id = id,
                                       !.err = ErrRecordNotFound]]
               /\ UNCHANGED backendCalls
          ELSE /\ backendCalls < MaxCalls
               /\ h' = [h EXCEPT ![p] =
                          [Idle EXCEPT !.pc = "sent", !.op = "Get", !.id = id,
                                       !.atCall = Lookup(id),
                                       !.gone = Gone(id)]]
               /\ backendCalls' = backendCalls + 1
    /\ UNCHANGED <<movies, nextId, nUpd>>

\* SELECT pg_sleep(10), id, created_at, title, year, runtime, genres, version
\* FROM movies WHERE id = $1
BackendSelect(p) ==
    /\ h[p].pc = "sent"
    /\ h[p].op = "Get"
    /\ LET row == Lookup(h[p].id)
       IN  h' = [h EXCEPT
                   ![p].pc = "ready",
                   ![p].pre = row, ![p].post = row,
                   ![p].execAt = h[p].elapsed,
                   ![p].res = IF row = NoRow
                              THEN [kind |-> "norows", row |-> NoRow, n |-> 0]
                              ELSE [kind |-> "row", row |-> row, n |-> 1]]
    /\ UNCHANGED <<movies, nextId, backendCalls, nUpd>>

\* Mutant of ReturnGet: every error of the Scan is reported as
\* ErrRecordNotFound.
ReturnGet_AllNotFound(p) ==
    /\ h[p].pc = "ready"
    /\ h[p].op = "Get"
    /\ h[p].elapsed >= ReadyAt(h[p])
    /\ LET r == h[p].res.row
       IN  h' = [h EXCEPT
                   ![p].pc = "done", ![p].elapsed = 0,
                   ![p].movie =
                       IF h[p].res.kind # "row" THEN ZeroMovie
                       ELSE [ID |-> r.id, CreatedAt |-> r.created_at,
                             Title |-> r.title, Year |-> r.year,
                             Runtime |-> r.runtime,
                             Genres |-> PqArrayScan(r.genres),
                             Version |-> r.version],
                   ![p].retNil = (h[p].res.kind # "row"),
                   ![p].err = IF h[p].res.kind # "row"
                              THEN ErrRecordNotFound ELSE NoErr]
    /\ UNCHANGED <<movies, nextId, backendCalls, nUpd>>

\* The Scan of the delivered result, the mapping of sql.ErrNoRows (any other
\* error is returned as it is), and the return.
ReturnGet(p) ==
    /\ h[p].pc = "ready"
    /\ h[p].op = "Get"
    /\ h[p].elapsed >= ReadyAt(h[p])
    /\ LET r == h[p].res.row
       IN  h' = [h EXCEPT
                   ![p].pc = "done", ![p].elapsed = 0,
                   ![p].movie =
                       IF h[p].res.kind # "row" THEN ZeroMovie
                       ELSE [ID |-> r.id, CreatedAt |-> r.created_at,
                             Title |-> r.title, Year |-> r.year,
                             Runtime |-> r.runtime,
                             Genres |-> PqArrayScan(r.genres),
                             Version |-> r.version],
                   ![p].retNil = (h[p].res.kind # "row"),
                   ![p].err = CASE h[p].res.kind = "norows" -> ErrRecordNotFound
                                [] h[p].res.kind = "error" -> BackendErr
                                [] OTHER -> NoErr]
    /\ UNCHANGED <<movies, nextId, backendCalls, nUpd>>

\* Mutant of GetDeadline: the deadline's context is shared by every call, so
\* its expiry ends every call in flight.
GetDeadline_CancelAll(p) ==
    /\ InFlight(p)
    /\ h[p].op = "Get"
    /\ h[p].elapsed >= GetTimeout
    /\ h' = [q \in Procs |->
               IF q = p
               THEN [h[q] EXCEPT !.pc = "done", !.elapsed = 0,
                                 !.movie = ZeroMovie, !.retNil = TRUE,
                                 !.err = DeadlineExceeded]
               ELSE IF h[q].pc \in {"sent", "ready"}
               THEN [h[q] EXCEPT !.pc = "done", !.elapsed = 0,
                                 !.err = DeadlineExceeded]
               ELSE h[q]]
    /\ UNCHANGED <<movies, nextId, backendCalls, nUpd>>

\* The context's deadline passes before a result was scanned: the statement
\* is abandoned and the context's error returned.
GetDeadline(p) ==
    /\ InFlight(p)
    /\ h[p].op = "Get"
    /\ h[p].elapsed >= GetTimeout
    /\ h' = [h EXCEPT ![p].pc = "done", ![p].elapsed = 0,
                      ![p].movie = ZeroMovie, ![p].retNil = TRUE,
                      ![p].err = DeadlineExceeded]
    /\ UNCHANGED <<movies, nextId, backendCalls, nUpd>>

\* ------------------------------------------------------------- Update
\* Update, to the point where the statement is with the backend.
CallUpdate(p) ==
    /\ h[p].pc = "idle"
    /\ backendCalls < MaxCalls
    /\ \E id \in UpdateIds, v \in UpdateVersions, f \in Inputs :
          h' = [h EXCEPT ![p] =
                  [Idle EXCEPT !.pc = "sent", !.op = "Update", !.id = id,
                               !.movie = Movie(id, 0, f, v),
                               !.args = <<f.Title, f.Year, f.Runtime,
                                          PqArrayValue(f.Genres), id, v>>,
                               !.atCall = Lookup(id), !.gone = Gone(id)]]
    /\ backendCalls' = backendCalls + 1
    /\ UNCHANGED <<movies, nextId, nUpd>>

\* Mutant of BackendUpdate: WHERE id = $5, without the version.
BackendUpdate_AnyVersion(p) ==
    /\ h[p].pc = "sent"
    /\ h[p].op = "Update"
    /\ LET a == h[p].args
           old == Lookup(a[5])
       IN  IF old # NoRow
           THEN LET row == Row(old.id, old.created_at, a[1], a[2], a[3], a[4],
                               old.version + 1)
                IN  /\ movies' = [movies EXCEPT ![a[5]] = row]
                    /\ nUpd' = [nUpd EXCEPT ![a[5]] = @ + 1]
                    /\ h' = [h EXCEPT
                               ![p].pc = "ready", ![p].pre = old,
                               ![p].post = row,
                               ![p].res = [kind |-> "row", row |-> row, n |-> 1]]
           ELSE /\ h' = [h EXCEPT
                           ![p].pc = "ready", ![p].pre = old, ![p].post = old,
                           ![p].res = [kind |-> "norows", row |-> NoRow, n |-> 0]]
                /\ UNCHANGED <<movies, nUpd>>
    /\ UNCHANGED <<nextId, backendCalls>>

\* Mutant of BackendUpdate: the fields are written before the version is
\* compared, and stay written when it differs.
BackendUpdate_PartialApply(p) ==
    /\ h[p].pc = "sent"
    /\ h[p].op = "Update"
    /\ LET a == h[p].args
           old == Lookup(a[5])
       IN  IF old # NoRow
           THEN LET hit == old.version = a[6]
                    row == Row(old.id, old.created_at, a[1], a[2], a[3], a[4],
                               IF hit THEN old.version + 1 ELSE old.version)
                IN  /\ movies' = [movies EXCEPT ![a[5]] = row]
                    /\ nUpd' = [nUpd EXCEPT ![a[5]] = IF hit THEN @ + 1 ELSE @]
                    /\ h' = [h EXCEPT
                               ![p].pc = "ready", ![p].pre = old,
                               ![p].post = row,
                               ![p].res =
                                   IF hit
                                   THEN [kind |-> "row", row |-> row, n |-> 1]
                                   ELSE [kind |-> "norows", row |-> NoRow,
                                         n |-> 0]]
           ELSE /\ h' = [h EXCEPT
                           ![p].pc = "ready", ![p].pre = old, ![p].post = old,
                           ![p].res = [kind |-> "norows", row |-> NoRow, n |-> 0]]
                /\ UNCHANGED <<movies, nUpd>>
    /\ UNCHANGED <<nextId, backendCalls>>

\* Mutant of BackendUpdate: SET without version = version + 1.
BackendUpdate_NoBump(p) ==
    /\ h[p].pc = "sent"
    /\ h[p].op = "Update"
    /\ LET a == h[p].args
           old == Lookup(a[5])
       IN  IF old # NoRow /\ old.version = a[6]
           THEN LET row == Row(old.id, old.created_at, a[1], a[2], a[3], a[4],
                               old.version)
                IN  /\ movies' = [movies EXCEPT ![a[5]] = row]
                    /\ nUpd' = [nUpd EXCEPT ![a[5]] = @ + 1]
                    /\ h' = [h EXCEPT
                               ![p].pc = "ready", ![p].pre = old,
                               ![p].post = row,
                               ![p].res = [kind |-> "row", row |-> row, n |-> 1]]
           ELSE /\ h' = [h EXCEPT
                           ![p].pc = "ready", ![p].pre = old, ![p].post = old,
                           ![p].res = [kind |-> "norows", row |-> NoRow, n |-> 0]]
                /\ UNCHANGED <<movies, nUpd>>
    /\ UNCHANGED <<nextId, backendCalls>>

\* UPDATE movies SET title = $1, year = $2, runtime = $3, genres = $4,
\* version = version + 1 WHERE id = $5 AND version = $6 RETURNING version
BackendUpdate(p) ==
    /\ h[p].pc = "sent"
    /\ h[p].op = "Update"
    /\ LET a == h[p].args
           old == Lookup(a[5])
       IN  IF old # NoRow /\ old.version = a[6]
           THEN LET row == Row(old.id, old.created_at, a[1], a[2], a[3], a[4],
                               old.version + 1)
                IN  /\ movies' = [movies EXCEPT ![a[5]] = row]
                    /\ nUpd' = [nUpd EXCEPT ![a[5]] = @ + 1]
                    /\ h' = [h EXCEPT
                               ![p].pc = "ready", ![p].pre = old,
                               ![p].post = row,
                               ![p].res = [kind |-> "row", row |-> row, n |-> 1]]
           ELSE /\ h' = [h EXCEPT
                           ![p].pc = "ready", ![p].pre = old, ![p].post = old,
                           ![p].res = [kind |-> "norows", row |-> NoRow, n |-> 0]]
                /\ UNCHANGED <<movies, nUpd>>
    /\ UNCHANGED <<nextId, backendCalls>>

\* Mutant of ReturnUpdate: sql.ErrNoRows mapped to ErrRecordNotFound.
ReturnUpdate_NotFound(p) ==
    /\ h[p].pc = "ready"
    /\ h[p].op = "Update"
    /\ h' = [h EXCEPT
               ![p].pc = "done",
               ![p].movie.Version = IF h[p].res.kind # "row" THEN @
                                    ELSE h[p].res.row.version,
               ![p].retNil = FALSE,
               ![p].err = CASE h[p].res.kind = "norows" -> ErrRecordNotFound
                            [] h[p].res.kind = "error" -> BackendErr
                            [] OTHER -> NoErr]
    /\ UNCHANGED <<movies, nextId, backendCalls, nUpd>>

\* Mutant of ReturnUpdate: an UPDATE that matched no row is reported as a
\* success.
ReturnUpdate_SwallowConflict(p) ==
    /\ h[p].pc = "ready"
    /\ h[p].op = "Update"
    /\ h' = [h EXCEPT
               ![p].pc = "done",
               ![p].movie.Version = IF h[p].res.kind # "row" THEN @
                                    ELSE h[p].res.row.version,
               ![p].retNil = FALSE,
               ![p].err = IF h[p].res.kind = "error" THEN BackendErr
                          ELSE NoErr]
    /\ UNCHANGED <<movies, nextId, backendCalls, nUpd>>

\* Mutant of ReturnUpdate: the record's version is advanced before the
\* outcome of the statement is known.
ReturnUpdate_BumpFirst(p) ==
    /\ h[p].pc = "ready"
    /\ h[p].op = "Update"
    /\ h' = [h EXCEPT
               ![p].pc = "done",
               ![p].movie.Version = @ + 1,
               ![p].retNil = FALSE,
               ![p].err = CASE h[p].res.kind = "norows" -> ErrEditConflict
                            [] h[p].res.kind = "error" -> BackendErr
                            [] OTHER -> NoErr]
    /\ UNCHANGED <<movies, nextId, backendCalls, nUpd>>

\* .Scan(&movie.Version), the mapping of sql.ErrNoRows (any other error is
\* returned as it is), and the return.
ReturnUpdate(p) ==
    /\ h[p].pc = "ready"
    /\ h[p].op = "Update"
    /\ h' = [h EXCEPT
               ![p].pc = "done",
               ![p].movie.Version = IF h[p].res.kind # "row" THEN @
                                    ELSE h[p].res.row.version,
               ![p].retNil = FALSE,
               ![p].err = CASE h[p].res.kind = "norows" -> ErrEditConflict
                            [] h[p].res.kind = "error" -> BackendErr
                            [] OTHER -> NoErr]
    /\ UNCHANGED <<movies, nextId, backendCalls, nUpd>>

\* ------------------------------------------------------------- Delete
\* Delete, to the point where the statement is with the backend; an id below
\* 1 returns at once.
CallDelete(p) ==
    /\ h[p].pc = "idle"
    /\ \E id \in ArgIds :
          IF id < 1
          THEN /\ h' = [h EXCEPT ![p] =
                          [Idle EXCEPT !.pc = "done", !.op = "Delete",
                                       !.id = id, !.err = ErrRecordNotFound]]
               /\ UNCHANGED backendCalls
          ELSE /\ backendCalls < MaxCalls
               /\ h' = [h EXCEPT ![p] =
                          [Idle EXCEPT !.pc = "sent", !.op = "Delete",
                                       !.id = id, !.atCall = Lookup(id),
                                       !.gone = Gone(id)]]
               /\ backendCalls' = backendCalls + 1
    /\ UNCHANGED <<movies, nextId, nUpd>>

\* Mutant of BackendDelete: DELETE FROM movies, without the WHERE.
BackendDelete_NoWhere(p) ==
    /\ h[p].pc = "sent"
    /\ h[p].op = "Delete"
    /\ LET id == h[p].id
           old == Lookup(id)
       IN  /\ movies' = << >>
           /\ nUpd' = << >>
           /\ h' = [h EXCEPT
                      ![p].pc = "ready", ![p].pre = old, ![p].post = NoRow,
                      ![p].res = [kind |-> "exec", row |-> NoRow,
                                  n |-> Cardinality(DOMAIN movies)]]
    /\ UNCHANGED <<nextId, backendCalls>>

\* Mutant of BackendDelete: the row is reported deleted and left in the
\* table.
BackendDelete_KeepRow(p) ==
    /\ h[p].pc = "sent"
    /\ h[p].op = "Delete"
    /\ LET old == Lookup(h[p].id)
       IN  h' = [h EXCEPT
                   ![p].pc = "ready", ![p].pre = old, ![p].post = old,
                   ![p].res = [kind |-> "exec", row |-> NoRow,
                               n |-> IF old = NoRow THEN 0 ELSE 1]]
    /\ UNCHANGED <<movies, nUpd, nextId, backendCalls>>

\* DELETE FROM movies WHERE id = $1
BackendDelete(p) ==
    /\ h[p].pc = "sent"
    /\ h[p].op = "Delete"
    /\ LET id == h[p].id
           old == Lookup(id)
       IN  /\ movies' = [i \in DOMAIN movies \ {id} |-> movies[i]]
           /\ nUpd' = [i \in DOMAIN nUpd \ {id} |-> nUpd[i]]
           /\ h' = [h EXCEPT
                      ![p].pc = "ready", ![p].pre = old, ![p].post = NoRow,
                      ![p].res = [kind |-> "exec", row |-> NoRow,
                                  n |-> IF old = NoRow THEN 0 ELSE 1]]
    /\ UNCHANGED <<nextId, backendCalls>>

\* Mutant of ReturnDelete: the affected-row count is not looked at.
ReturnDelete_IgnoreRows(p) ==
    /\ h[p].pc = "ready"
    /\ h[p].op = "Delete"
    /\ h' = [h EXCEPT ![p].pc = "done",
                      ![p].err = IF h[p].res.kind = "error" THEN BackendErr
                                 ELSE NoErr]
    /\ UNCHANGED <<movies, nextId, backendCalls, nUpd>>

\* The error of Exec if there is one, else result.RowsAffected() and the
\* return.
ReturnDelete(p) ==
    /\ h[p].pc = "ready"
    /\ h[p].op = "Delete"
    /\ h' = [h EXCEPT
               ![p].pc = "done",
               ![p].err = CASE h[p].res.kind = "error" -> BackendErr
                            [] h[p].res.n = 0 -> ErrRecordNotFound
                            [] OTHER -> NoErr]
    /\ UNCHANGED <<movies, nextId, backendCalls, nUpd>>

\* --------------------------------------------------------------- rest
\* The handler is done with the result of its call.
Finish(p) ==
    /\ h[p].pc = "done"
    /\ h' = [h EXCEPT ![p] = Idle]
    /\ UNCHANGED <<movies, nextId, backendCalls, nUpd>>

\* A Get is waiting: for the backend, not for its own handler, which scans a
\* delivered result and honours a passed deadline without delay.
Waiting(p) ==
    /\ InFlight(p)
    /\ h[p].op = "Get"
    /\ h[p].elapsed < GetTimeout
    /\ h[p].pc = "ready" => h[p].elapsed < ReadyAt(h[p])

\* One unit of time passes.  Only a Get measures time (its context's timer
\* and the backend's pg_sleep).
Tick ==
    /\ \E p \in Procs : InFlight(p) /\ h[p].op = "Get"
    /\ \A p \in Procs : (InFlight(p) /\ h[p].op = "Get") => Waiting(p)
    /\ h' = [p \in Procs |->
               IF InFlight(p) /\ h[p].op = "Get"
               THEN [h[p] EXCEPT !.elapsed = @ + 1]
               ELSE h[p]]
    /\ UNCHANGED <<movies, nextId, backendCalls, nUpd>>

Next ==
    \/ \E p \in Procs : CallInsert(p)
    \/ \E p \in Procs : BackendInsert(p)
    \/ \E p \in Procs : ReturnInsert(p)
    \/ \E p \in Procs : CallGet(p)
    \/ \E p \in Procs : BackendSelect(p)
    \/ \E p \in Procs : ReturnGet(p)
    \/ \E p \in Procs : GetDeadline(p)
    \/ \E p \in Procs : CallUpdate(p)
    \/ \E p \in Procs : BackendUpdate(p)
    \/ \E p \in Procs : ReturnUpdate(p)
    \/ \E p \in Procs : CallDelete(p)
    \/ \E p \in Procs : BackendDelete(p)
    \/ \E p \in Procs : ReturnDelete(p)
    \/ \E p \in Procs : Finish(p)
    \/ Tick

Spec == Init /\ [][Next]_vars

\* Every handler step that ends a call is taken once it can be, and time
\* passes; the backend is under no such obligation and may stall for ever.
HandlerStep(p) ==
    \/ ReturnInsert(p)
    \/ ReturnGet(p)
    \/ GetDeadline(p)
    \/ ReturnUpdate(p)
    \/ ReturnDelete(p)

FairSpec ==
    /\ Init
    /\ [][Next]_vars
    /\ WF_vars(Tick)
    /\ \A p \in Procs : WF_vars(HandlerStep(p))

\* ------------------------------------------------------------- faults
\* The backend fails a statement instead of executing it (a lost connection,
\* an error of the driver): the table is as it was and the call gets an
\* error that is neither sql.ErrNoRows nor the deadline's.
BackendFails(p) ==
    /\ h[p].pc = "sent"
    /\ LET row == Lookup(h[p].id)
       IN  h' = [h EXCEPT
                   ![p].pc = "ready",
                   ![p].pre = row, ![p].post = row,
                   ![p].execAt = IF h[p].op = "Get" THEN h[p].elapsed ELSE @,
                   ![p].res = [kind |-> "error", row |-> NoRow, n |-> 0]]
    /\ UNCHANGED <<movies, nextId, backendCalls, nUpd>>

FaultNext ==
    \/ Next
    \/ \E p \in Procs : BackendFails(p)

\* The program over a backend that may fail statements.
FaultSpec == Init /\ [][FaultNext]_vars

\* ---------------------------------------------------------- validator
\* A nil slice, told apart from the empty slice: the one-element sequence
\* holding a mark that is no genre.
NilSlice == <<"<nil>">>

\* len(s) of a slice.
SliceLen(s) == IF s = NilSlice THEN 0 ELSE Len(s)

RECURSIVE Repeat(_, _)
\* The string of n copies of c.
Repeat(c, n) ==
    IF n = 0 THEN ""
    ELSE IF n % 2 = 0 THEN LET half == Repeat(c, n \div 2) IN half \o half
    ELSE c \o Repeat(c, n - 1)

\* time.Now().Year() at the time of a validation.
NowYears == {2026}

\* The records handed to the validator.
Titles == {"", "Moana", Repeat("a", 500), Repeat("a", 501)}
Years == {0, 1887, 1888, 2026, 2027}
Runtimes == {-1, 0, 107}
GenreLists ==
    {NilSlice, << >>, <<"drama">>, <<"drama", "drama">>,
     <<"action", "adventure", "animation", "comedy", "drama">>,
     <<"action", "adventure", "animation", "comedy", "drama", "romance">>}

Candidates ==
    [Title : Titles, Year : Years, Runtime : Runtimes, Genres : GenreLists]

\* v.AddError(key, message): the first message under a key stays.
AddError(v, key, message) ==
    IF key \in DOMAIN v.Errors THEN v
    ELSE [v EXCEPT !.Errors = (key :> message) @@ v.Errors]

\* v.Check(ok, key, message)
Check(v, ok, key, message) == IF ok THEN v ELSE AddError(v, key, message)

\* v.Valid()
Valid(v) == DOMAIN v.Errors = {}

\* validator.Unique(values): as many distinct values as values.
Unique(values) ==
    IF values = NilSlice THEN TRUE
    ELSE Cardinality({values[i] : i \in DOMAIN values}) = Len(values)

\* Mutant of ValidateMovie: the checks stop at the first that fails.
ValidateMovie_FirstFailureOnly(v, movie, now) ==
    LET Try(w, ok, key, message) ==
            IF Valid(w) THEN Check(w, ok, key, message) ELSE w
        v1 == Try(v, movie.Title # "", "title", "must be provided")
        v2 == Try(v1, Len(movie.Title) <= 500, "title",
                  "must not be more than 500 bytes long")
        v3 == Try(v2, movie.Year # 0, "year", "must be provided")
        v4 == Try(v3, movie.Year >= 1888, "year", "must be greater than 1888")
        v5 == Try(v4, movie.Year <= now, "year", "must not be in the future")
        v6 == Try(v5, movie.Runtime # 0, "runtime", "must be provided")
        v7 == Try(v6, movie.Runtime > 0, "runtime",
                  "must be a positive integer")
        v8 == Try(v7, movie.Genres # NilSlice, "genres", "must be provided")
        v9 == Try(v8, SliceLen(movie.Genres) >= 1, "genres",
                  "must contain at least 1 genre")
        v10 == Try(v9, SliceLen(movie.Genres) <= 5, "genres",
                   "must not contain more than 5 genres")
    IN  Try(v10, Unique(movie.Genres), "genres",
            "must not contain duplicate values")

\* ValidateMovie(v, movie), with the year time.Now() gives: eleven checks,
\* each made whatever the ones before it found.
ValidateMovie(v, movie, now) ==
    LET v1 == Check(v, movie.Title # "", "title", "must be provided")
        v2 == Check(v1, Len(movie.Title) <= 500, "title",
                    "must not be more than 500 bytes long")
        v3 == Check(v2, movie.Year # 0, "year", "must be provided")
        v4 == Check(v3, movie.Year >= 1888, "year", "must be greater than 1888")
        v5 == Check(v4, movie.Year <= now, "year", "must not be in the future")
        v6 == Check(v5, movie.Runtime # 0, "runtime", "must be provided")
        v7 == Check(v6, movie.Runtime > 0, "runtime",
                    "must be a positive integer")
        v8 == Check(v7, movie.Genres # NilSlice, "genres", "must be provided")
        v9 == Check(v8, SliceLen(movie.Genres) >= 1, "genres",
                    "must contain at least 1 genre")
        v10 == Check(v9, SliceLen(movie.Genres) <= 5, "genres",
                     "must not contain more than 5 genres")
    IN  Check(v10, Unique(movie.Genres), "genres",
              "must not contain duplicate values")

\* A handler builds the record it is about to validate.
NewMovie(p) ==
    /\ h[p].pc = "idle"
    /\ \E f \in Candidates :
          h' = [h EXCEPT ![p] =
                  [Idle EXCEPT !.pc = "built", !.op = "Validate",
                               !.movie = Movie(0, 0, f, 0)]]
    /\ UNCHANGED <<movies, nextId, backendCalls, nUpd>>

\* v := validator.New(); ValidateMovie(v, movie)
Validate(p) ==
    /\ h[p].pc = "built"
    /\ h[p].op = "Validate"
    /\ \E now \in NowYears :
          h' = [h EXCEPT
                  ![p].pc = "done", ![p].nowYear = now,
                  ![p].v = ValidateMovie(NewValidator, h[p].movie, now)]
    /\ UNCHANGED <<movies, nextId, backendCalls, nUpd>>

ValidatorNext ==
    \/ \E p \in Procs : NewMovie(p)
    \/ \E p \in Procs : Validate(p)
    \/ \E p \in Procs : Finish(p)

\* A validation touches no table: the empty one will do.
ValidatorInit ==
    /\ movies = << >>
    /\ nextId = 1
    /\ nUpd = << >>
    /\ h = [p \in Procs |-> Idle]
    /\ backendCalls = 0

\* The validator on its own: handlers build records and validate them.
ValidatorSpec == ValidatorInit /\ [][ValidatorNext]_vars

\* ------------------------------------------------------------- claims
Done(p, op) == h[p].pc = "done" /\ h[p].op = op

\* The version a handler's Update submitted.
Submitted(p) == h[p].args[6]

\* The row holds the fields of the record m.
HoldsFields(row, m) ==
    /\ row.title = m.Title
    /\ row.year = m.Year
    /\ row.runtime = m.Runtime
    /\ PqArrayScan(row.genres) = m.Genres

\* Two Updates of one id, both made while the row stood at the version both
\* submit, and both returned.
Raced(p, q) ==
    /\ p # q
    /\ Done(p, "Update") /\ Done(q, "Update")
    /\ h[p].id = h[q].id
    /\ Submitted(p) = Submitted(q)
    /\ h[p].atCall # NoRow /\ h[p].atCall.version = Submitted(p)
    /\ h[q].atCall # NoRow /\ h[q].atCall.version = Submitted(q)

\* C1: of two Updates of the same id racing on the same stored version N,
\* exactly one returns success with its record at version N+1, the other
\* returns ErrEditConflict, and the stored row then holds the winner's
\* title, year, runtime and genres at version N+1.
C1_OneWinner ==
    \A p, q \in Procs :
        Raced(p, q) =>
            \E w \in {p, q} :
                LET l == CHOOSE x \in {p, q} : x # w
                    n == Submitted(w)
                    row == Lookup(h[w].id)
                IN  /\ h[w].err = NoErr
                    /\ h[w].movie.Version = n + 1
                    /\ h[l].err = ErrEditConflict
                    /\ row # NoRow
                    /\ row.version = n + 1
                    /\ HoldsFields(row, h[w].movie)
                    /\ row.id = h[w].id
                    /\ row.created_at = h[w].atCall.created_at

C1_Witness ==
    \E p, q \in Procs :
        /\ Raced(p, q)
        /\ h[p].err = NoErr
        /\ h[q].err = ErrEditConflict
        /\ h[p].movie.Title # h[q].movie.Title
        /\ Submitted(p) = 2

\* C2: an Update whose submitted version differs from the version stored
\* when its statement executes returns ErrEditConflict and leaves the stored
\* row, all fields and version, as it was; the caller's record is untouched.
C2_StaleRejected ==
    \A p \in Procs :
        (Done(p, "Update") /\ h[p].pre # NoRow
            /\ h[p].pre.version # Submitted(p)) =>
            /\ h[p].err = ErrEditConflict
            /\ h[p].post = h[p].pre
            /\ h[p].movie.Version = Submitted(p)

C2_Witness ==
    \E p \in Procs :
        /\ Done(p, "Update")
        /\ h[p].pre # NoRow
        /\ h[p].pre.version = 2
        /\ Submitted(p) = 1
        /\ ~HoldsFields(h[p].pre, h[p].movie)
        /\ h[p].err = ErrEditConflict

\* A step changes the version of no row but by one successful Update's +1,
\* and a row that appears starts at version 1.
VersionStep ==
    /\ \A id \in DOMAIN movies \cap DOMAIN movies' :
          \/ movies'[id].version = movies[id].version
          \/ /\ movies'[id].version = movies[id].version + 1
             /\ \E p \in Procs :
                   /\ h[p].op = "Update" /\ h[p].id = id
                   /\ h[p].pc = "sent" /\ h'[p].pc = "ready"
                   /\ h'[p].res.kind = "row"
    /\ \A id \in DOMAIN movies' \ DOMAIN movies : movies'[id].version = 1

\* C3: the stored version of every existing record is 1 plus the number of
\* successful Updates on that id: it starts at 1, each successful Update adds
\* exactly 1 and nothing else changes it; and a successful Update leaves the
\* caller's record.version equal to the new stored version.
C3_VersionCounts ==
    /\ [](\A id \in DOMAIN movies : movies[id].version = 1 + nUpd[id])
    /\ [](\A p \in Procs :
            (Done(p, "Update") /\ h[p].err = NoErr) =>
                /\ h[p].post.version = h[p].pre.version + 1
                /\ h[p].movie.Version = h[p].post.version)
    /\ [][VersionStep]_vars

C3_Witness ==
    \E p \in Procs :
        /\ Done(p, "Update")
        /\ h[p].err = NoErr
        /\ h[p].movie.Version = 3
        /\ Lookup(h[p].id).version = 3
        /\ nUpd[h[p].id] = 2

\* C4: a Get of the id an Insert returned, made after the Insert with no
\* write to that id in between and answered by the backend without delay,
\* returns a record equal to the inserted one in title, year, runtime and
\* genres, carrying the generated id, created_at and version.
C4_RoundTrip ==
    \A p, q \in Procs :
        (Done(q, "Insert") /\ Done(p, "Get")
            /\ h[p].id = h[q].movie.ID
            /\ h[p].atCall = h[q].post
            /\ Lookup(h[p].id) = h[q].post
            /\ h[p].execAt = 0) =>
            /\ h[p].err = NoErr
            /\ ~h[p].retNil
            /\ h[p].movie = h[q].movie

\* A call to Get or Delete with an id below 1.
BadIdCall(p) ==
    /\ h[p].pc = "idle"
    /\ h'[p].op \in {"Get", "Delete"}
    /\ h'[p].id < 1

\* C5: for every id < 1, Get and Delete return ErrRecordNotFound at once
\* and issue no backend call: the call counter and the stored state stay as
\* they were.
C5_BadIdNoBackend ==
    /\ [][\A p \in Procs :
            BadIdCall(p) =>
                /\ h'[p].pc = "done"
                /\ h'[p].err = ErrRecordNotFound
                /\ h'[p].retNil
                /\ backendCalls' = backendCalls
                /\ movies' = movies
                /\ nextId' = nextId]_vars
    /\ [](\A p \in Procs :
            (h[p].op \in {"Get", "Delete"} /\ h[p].id < 1) =>
                /\ h[p].pc = "done"
                /\ h[p].res = NoRes)

C5_Witness ==
    \E p, q \in Procs :
        /\ Done(p, "Get") /\ h[p].id = -1 /\ h[p].err = ErrRecordNotFound
        /\ Done(q, "Delete") /\ h[q].id = 0 /\ h[q].err = ErrRecordNotFound
        /\ backendCalls = 0

\* C6: an Insert of a record with valid fields succeeds; the record echoed
\* to the caller has version 1, an id above 0 and a created_at, and the row
\* stored holds the submitted title, year, runtime and genres.
C6_InsertEcho ==
    \A p \in Procs :
        Done(p, "Insert") =>
            /\ h[p].err = NoErr
            /\ h[p].movie.Version = 1
            /\ h[p].movie.ID > 0
            /\ h[p].movie.CreatedAt # 0
            /\ \E f \in Inputs : h[p].movie = Movie(h[p].movie.ID,
                                                   h[p].movie.CreatedAt, f, 1)
            /\ h[p].post.id = h[p].movie.ID
            /\ h[p].post.created_at = h[p].movie.CreatedAt
            /\ h[p].post.version = 1
            /\ HoldsFields(h[p].post, h[p].movie)

C6_Witness ==
    \E p \in Procs :
        /\ Done(p, "Insert")
        /\ h[p].movie.ID = 2
        /\ h[p].movie.Title = "Moana"
        /\ Lookup(2) = h[p].post

\* A Delete's statement executes and finds no row of its id.
DeleteOfNothing(p) ==
    /\ h[p].op = "Delete"
    /\ h[p].pc = "sent" /\ h'[p].pc = "ready"
    /\ Lookup(h[p].id) = NoRow

\* C7: a Delete of an existing id returns success and removes the row, which
\* stays removed, so that a later Get of the id returns no record, and
\* ErrRecordNotFound once the backend answers within the deadline; a Delete
\* of an id that was deleted or never existed returns ErrRecordNotFound and
\* changes nothing.
C7_DeleteOnce ==
    /\ [](\A p \in Procs :
            (Done(p, "Delete") /\ h[p].id >= 1) =>
                /\ h[p].pre # NoRow => (h[p].err = NoErr /\ h[p].post = NoRow)
                /\ h[p].pre = NoRow =>
                       (h[p].err = ErrRecordNotFound /\ h[p].post = NoRow)
                /\ h[p].gone => h[p].err = ErrRecordNotFound)
    /\ [](\A p \in Procs :
            (Done(p, "Get") /\ h[p].gone) =>
                /\ h[p].err # NoErr
                /\ h[p].retNil
                /\ (h[p].execAt >= 0 /\ h[p].execAt < GetTimeout) =>
                       h[p].err = ErrRecordNotFound)
    /\ [][\A p \in Procs :
            DeleteOfNothing(p) => (movies' = movies /\ nextId' = nextId)]_vars
    /\ [][\A id \in 1..nextId : Gone(id) => Gone(id)']_vars

C7_Witness ==
    \E p, q \in Procs :
        /\ Done(p, "Delete") /\ h[p].id = 1 /\ h[p].err = NoErr
        /\ Done(q, "Get") /\ h[q].id = 1 /\ h[q].gone
        /\ h[q].err = ErrRecordNotFound

C7_WitnessTwice ==
    \E p, q \in Procs :
        /\ Done(p, "Delete") /\ h[p].id = 1 /\ h[p].err = NoErr
        /\ Done(q, "Delete") /\ h[q].id = 1 /\ h[q].gone
        /\ h[q].err = ErrRecordNotFound

\* C8: an Update that finds no row of its id, the row deleted or never
\* inserted, returns ErrEditConflict, not ErrRecordNotFound, and creates no
\* row of that id.
C8_MissingRowConflict ==
    \A p \in Procs :
        (Done(p, "Update") /\ h[p].pre = NoRow) =>
            /\ h[p].err = ErrEditConflict
            /\ h[p].err # ErrRecordNotFound
            /\ h[p].post = NoRow
            /\ h[p].movie.Version = Submitted(p)

C8_Witness ==
    \E p, q \in Procs :
        /\ Done(p, "Update") /\ h[p].gone /\ h[p].pre = NoRow
        /\ h[p].err = ErrEditConflict
        /\ Done(q, "Update") /\ ~h[q].gone /\ h[q].pre = NoRow
        /\ h[q].err = ErrEditConflict

\* The backend's result of a Get was not there within 3 units of time from
\* the call: the statement never executed, or its result came later.
Late(p) == h[p].execAt = -1 \/ ReadyAt(h[p]) > 3

\* C9: a Get whose backend read is delayed beyond the deadline, 3 units of
\* time from the call, is abandoned at the deadline and returns the
\* context's error: not ErrRecordNotFound, no record, and no call is in
\* flight past the deadline.
C9_GetDeadline ==
    /\ \A p \in Procs :
          (InFlight(p) /\ h[p].op = "Get") => h[p].elapsed <= 3
    /\ \A p \in Procs :
          (Done(p, "Get") /\ h[p].id >= 1 /\ Late(p)) =>
              /\ h[p].err = DeadlineExceeded
              /\ h[p].err # ErrRecordNotFound
              /\ h[p].retNil

C9_Witness ==
    \E p, q \in Procs :
        /\ Done(p, "Get") /\ h[p].execAt = 0 /\ h[p].res.kind = "row"
        /\ h[p].err = DeadlineExceeded
        /\ Done(q, "Get") /\ h[q].execAt = -1
        /\ h[q].err = DeadlineExceeded

\* C10: every call of Insert, Get, Update and Delete returns to its caller,
\* also when the backend stalls for ever.
C10_EveryCallReturns ==
    \A p \in Procs : InFlight(p) ~> ~InFlight(p)

\* C11: ids are never reused: every row's id lies below the id sequence, the
\* sequence never goes back, and the id an Insert assigns is the sequence's
\* next value, so it differs from every id assigned before, those of rows
\* deleted since included; two Inserts never return the same id.
C11_IdsNotReused ==
    /\ [](\A id \in DOMAIN movies : id >= 1 /\ id < nextId)
    /\ [](\A p \in Procs :
            Done(p, "Insert") =>
                /\ h[p].movie.ID < nextId
                /\ \A q \in Procs \ {p} :
                       Done(q, "Insert") => h[q].movie.ID # h[p].movie.ID)
    /\ [][/\ nextId' >= nextId
          /\ \A id \in DOMAIN movies' \ DOMAIN movies :
                 id >= nextId /\ id < nextId']_vars

C11_Witness ==
    \E p, q \in Procs :
        /\ Done(q, "Delete") /\ h[q].id = 1 /\ h[q].err = NoErr
        /\ Done(p, "Insert") /\ h[p].gone
        /\ h[p].movie.ID = 2
        /\ Gone(1)

\* C12: an Update issues one conditional write and no more (one statement
\* at the call, executed once, nothing issued or written afterwards), and it
\* returns success only if that write found the row at the submitted version
\* and left it holding the submitted fields at the next version.
C12_OneWriteNoDowngrade ==
    /\ [](\A p \in Procs :
            (Done(p, "Update") /\ h[p].err = NoErr) =>
                /\ h[p].res.kind = "row"
                /\ h[p].pre # NoRow
                /\ h[p].pre.id = h[p].id
                /\ h[p].pre.version = Submitted(p)
                /\ HoldsFields(h[p].post, h[p].movie)
                /\ h[p].post.version = Submitted(p) + 1)
    /\ [][\A p \in Procs :
            /\ (h[p].pc = "idle" /\ h'[p].op = "Update") =>
                   /\ h'[p].pc = "sent"
                   /\ backendCalls' = backendCalls + 1
                   /\ movies' = movies
            /\ (h[p].op = "Update" /\ h'[p] # h[p]) =>
                   /\ backendCalls' = backendCalls
                   /\ h[p].pc = "sent" => h'[p].pc = "ready"
                   /\ h[p].pc = "ready" =>
                          h'[p].pc = "done" /\ movies' = movies
                   /\ h[p].pc = "done" =>
                          h'[p].pc = "idle" /\ movies' = movies]_vars

\* A stale Update has returned its conflict after one statement, next to
\* the Update that won.
C12_Witness ==
    \E p, q \in Procs :
        /\ Done(p, "Update") /\ h[p].err = ErrEditConflict
        /\ h[p].pre # NoRow /\ h[p].pre.version # Submitted(p)
        /\ Done(q, "Update") /\ h[q].err = NoErr /\ h[q].id = h[p].id
        /\ backendCalls = 2

\* C13: the expiry of a Get's deadline ends that Get only: in the step that
\* returns the deadline's error every other handler's call stands as it was,
\* in flight if it was in flight, and the table is as it was, so that what
\* another call has written stays written.
C13_DeadlineCancelsOnlyThatGet ==
    [][\A p \in Procs :
          (/\ InFlight(p) /\ h[p].op = "Get"
           /\ h'[p].pc = "done" /\ h'[p].err = DeadlineExceeded) =>
              /\ \A q \in Procs \ {p} : h'[q] = h[q]
              /\ movies' = movies
              /\ nextId' = nextId
              /\ nUpd' = nUpd]_vars

\* A Get's deadline has been reached while another handler's write is in
\* flight, executed and not yet returned.
C13_Witness ==
    \E p, q \in Procs :
        /\ InFlight(p) /\ h[p].op = "Get" /\ h[p].elapsed = GetTimeout
        /\ h[q].pc = "ready" /\ h[q].op = "Update"
        /\ h[q].res.kind = "row"
        /\ Lookup(h[q].id) = h[q].post

\* The fields of a record as the field invariants have them.
TitleOk(m) == Len(m.Title) >= 1 /\ Len(m.Title) <= 500
YearOk(m, now) == m.Year >= 1888 /\ m.Year <= now
RuntimeOk(m) == m.Runtime > 0
GenresOk(m) ==
    /\ m.Genres # NilSlice
    /\ Len(m.Genres) >= 1 /\ Len(m.Genres) <= 5
    /\ \A i, j \in DOMAIN m.Genres : i # j => m.Genres[i] # m.Genres[j]

\* C14: ValidateMovie makes every check: after it the validator holds a
\* violation under "title", "year", "runtime" or "genres" exactly when that
\* field breaks its invariant (title of 1 to 500 bytes, year from 1888 to the
\* current year, runtime above 0, 1 to 5 genres without duplicates), whatever
\* the other fields are, and holds none exactly when all four are met.
C14_ValidateMovie ==
    \A p \in Procs :
        Done(p, "Validate") =>
            LET m == h[p].movie
                e == h[p].v.Errors
            IN  /\ DOMAIN e \subseteq {"title", "year", "runtime", "genres"}
                /\ "title" \in DOMAIN e <=> ~TitleOk(m)
                /\ "year" \in DOMAIN e <=> ~YearOk(m, h[p].nowYear)
                /\ "runtime" \in DOMAIN e <=> ~RuntimeOk(m)
                /\ "genres" \in DOMAIN e <=> ~GenresOk(m)
                /\ Valid(h[p].v) <=>
                       /\ TitleOk(m) /\ YearOk(m, h[p].nowYear)
                       /\ RuntimeOk(m) /\ GenresOk(m)

\* One handler has validated a record with a title of 501 bytes and an empty
\* genre list and holds both violations, the other a record that meets every
\* invariant and holds none.
C14_Witness ==
    \E p, q \in Procs :
        /\ Done(p, "Validate")
        /\ Len(h[p].movie.Title) = 501 /\ h[p].movie.Genres = << >>
        /\ h[p].movie.Year = 1888 /\ h[p].movie.Runtime = 107
        /\ DOMAIN h[p].v.Errors = {"title", "genres"}
        /\ Done(q, "Validate")
        /\ Len(h[q].movie.Title) = 500 /\ Len(h[q].movie.Genres) = 5
        /\ h[q].movie.Year = h[q].nowYear /\ h[q].movie.Runtime = 107
        /\ Valid(h[q].v)

\* C15: a Get returns ErrRecordNotFound when its id is below 1 and when its
\* read found no row of that id and was answered within the deadline, and in
\* no other case; a read the backend failed and a deadline that passed are
\* returned as errors that are neither ErrRecordNotFound nor
\* ErrEditConflict, with a nil record; no step of a Get changes the table.
C15_GetNotFoundExactly ==
    /\ [](\A p \in Procs :
            Done(p, "Get") =>
                /\ h[p].id < 1 => h[p].err = ErrRecordNotFound
                /\ (/\ h[p].id >= 1 /\ h[p].res.kind = "norows"
                    /\ h[p].execAt < GetTimeout) =>
                       h[p].err = ErrRecordNotFound
                /\ h[p].err = ErrRecordNotFound =>
                       \/ h[p].id < 1
                       \/ h[p].res.kind = "norows" /\ h[p].pre = NoRow
                /\ h[p].res.kind = "error" =>
                       h[p].err \in {BackendErr, DeadlineExceeded}
                /\ h[p].err \notin {NoErr, ErrRecordNotFound} =>
                       /\ h[p].err \in {BackendErr, DeadlineExceeded}
                       /\ h[p].err # ErrEditConflict
                       /\ h[p].retNil)
    /\ [][\A p \in Procs :
            (h'[p].op = "Get" /\ h'[p] # h[p]) =>
                /\ movies' = movies
                /\ nextId' = nextId
                /\ nUpd' = nUpd]_vars

\* One Get of an existing row was failed by the backend and returned the
\* backend's error; another, of an id without a row, returned
\* ErrRecordNotFound.
C15_Witness ==
    \E p, q \in Procs :
        /\ Done(p, "Get") /\ h[p].atCall # NoRow /\ h[p].pre # NoRow
        /\ h[p].res.kind = "error" /\ h[p].err = BackendErr
        /\ Done(q, "Get") /\ h[q].id >= 1 /\ h[q].pre = NoRow
        /\ h[q].res.kind = "norows" /\ h[q].err = ErrRecordNotFound

\* The rows of every id but the given one are in the table before and after
\* the step, and the same.
OthersKept(id) ==
    /\ DOMAIN movies \ {id} = DOMAIN movies' \ {id}
    /\ \A i \in DOMAIN movies \ {id} : movies'[i] = movies[i]

\* C16: the statement of an Update changes at most the row of its id, and in
\* it at most title, year, runtime, genres and version: id and created_at
\* stay, every other row stays, no row comes or goes; the statement of a
\* Delete removes at most the row of its id and leaves every other row as it
\* was.
C16_Frame ==
    [][\A p \in Procs :
          (h[p].pc = "sent" /\ h'[p].pc = "ready") =>
              /\ h[p].op = "Update" =>
                     /\ OthersKept(h[p].id)
                     /\ DOMAIN movies' = DOMAIN movies
                     /\ h[p].id \in DOMAIN movies =>
                            /\ movies'[h[p].id].id = h[p].id
                            /\ movies'[h[p].id].created_at =
                                   movies[h[p].id].created_at
                     /\ nextId' = nextId
              /\ h[p].op = "Delete" =>
                     /\ OthersKept(h[p].id)
                     /\ DOMAIN movies' = DOMAIN movies \ {h[p].id}
                     /\ nextId' = nextId]_vars

\* Beside an untouched row, a row was updated with success and then
\* deleted: the other row is still as inserted.
C16_Witness ==
    \E p, q \in Procs :
        /\ Done(p, "Update") /\ h[p].err = NoErr /\ h[p].id = 1
        /\ h[p].post.created_at = h[p].pre.created_at
        /\ h[p].post.title # h[p].pre.title
        /\ Done(q, "Delete") /\ h[q].err = NoErr /\ h[q].id = 1
        /\ h[q].pre = h[p].post
        /\ DOMAIN movies = {2}
        /\ movies[2].version = 1

\* C17: lost updates are detected over read, modify, write: the Update
\* that submits a version another Update has used up returns
\* ErrEditConflict and leaves the row with the winner's fields at the next
\* version, and the Get with which its caller then fetches the row again
\* (no write in between, the backend answering without delay) returns that
\* row, so that the caller can submit its change at the version it read.
C17_RefetchAfterConflict ==
    \A p, q \in Procs :
        (/\ Done(q, "Update") /\ h[q].err = ErrEditConflict
         /\ h[q].pre # NoRow /\ h[q].pre.version = Submitted(q) + 1) =>
            /\ h[q].post = h[q].pre
            /\ h[q].movie.Version = Submitted(q)
            /\ (/\ Done(p, "Get") /\ h[p].id = h[q].id
                /\ h[p].atCall = h[q].pre
                /\ Lookup(h[p].id) = h[q].pre
                /\ h[p].execAt = 0) =>
                   /\ h[p].err = NoErr
                   /\ ~h[p].retNil
                   /\ h[p].movie.Version = Submitted(q) + 1
                   /\ HoldsFields(h[q].pre, h[p].movie)

\* The record a handler passed to Update is as the handler passed it.
RecordAsSubmitted(p) ==
    /\ h[p].movie.ID = h[p].args[5]
    /\ h[p].movie.Version = h[p].args[6]
    /\ h[p].movie.Title = h[p].args[1]
    /\ h[p].movie.Year = h[p].args[2]
    /\ h[p].movie.Runtime = h[p].args[3]
    /\ PqArrayValue(h[p].movie.Genres) = h[p].args[4]
    /\ h[p].movie.CreatedAt = 0

\* C18: when an Update returns ErrEditConflict or any other error, the
\* caller's record is as the caller passed it: its version is the submitted
\* one, not advanced, and no other field was written.
C18_FailedUpdateKeepsRecord ==
    \A p \in Procs :
        (Done(p, "Update") /\ h[p].err # NoErr) =>
            /\ h[p].err \in {ErrEditConflict, BackendErr}
            /\ RecordAsSubmitted(p)
            /\ ~h[p].retNil

\* One Update has returned ErrEditConflict on a row that had moved on, the
\* other the backend's error.
C18_Witness ==
    \E p, q \in Procs :
        /\ Done(p, "Update") /\ h[p].err = ErrEditConflict
        /\ h[p].pre # NoRow /\ h[p].pre.version = Submitted(p) + 1
        /\ h[p].movie.Version = Submitted(p)
        /\ Done(q, "Update") /\ h[q].err = BackendErr
        /\ h[q].res.kind = "error"
        /\ h[q].movie.Version = Submitted(q)

\* An Update by p and a Delete by q of one id, both made while the row stood
\* at the version the Update submits, and both returned.
UpdateRacedDelete(p, q) ==
    /\ Done(p, "Update") /\ Done(q, "Delete")
    /\ h[p].id = h[q].id
    /\ h[p].atCall # NoRow /\ h[p].atCall.version = Submitted(p)
    /\ h[q].atCall # NoRow /\ h[q].atCall.version = Submitted(p)

\* C19: when an Update submitting the current version races a Delete of the
\* same existing id, the Delete returns success and the row is gone
\* afterwards whatever the order; the Update returns success when its write
\* was applied first (the Delete then removed the row the Update wrote) and
\* ErrEditConflict when the Delete ran first (the Update found no row); it
\* never returns success for a write made after the row was deleted.
C19_UpdateVersusDelete ==
    \A p, q \in Procs :
        UpdateRacedDelete(p, q) =>
            /\ h[q].err = NoErr
            /\ Lookup(h[q].id) = NoRow
            /\ Gone(h[q].id)
            /\ \/ /\ h[p].err = NoErr
                  /\ h[p].pre = h[p].atCall
                  /\ h[p].movie.Version = Submitted(p) + 1
                  /\ h[q].pre = h[p].post
               \/ /\ h[p].err = ErrEditConflict
                  /\ h[p].pre = NoRow
                  /\ h[p].movie.Version = Submitted(p)
                  /\ h[q].pre = h[q].atCall
            /\ h[p].err = NoErr => h[p].pre # NoRow

\* Both orders of the race have a state: here the Delete ran first and the
\* Update, made while the row was there, found none.
C19_Witness ==
    \E p, q \in Procs :
        /\ UpdateRacedDelete(p, q)
        /\ h[p].err = ErrEditConflict
        /\ h[p].pre = NoRow
        /\ h[q].err = NoErr

\* The other order: the Update's write was applied and the Delete removed
\* the row it wrote.
C19_WitnessUpdateFirst ==
    \E p, q \in Procs :
        /\ UpdateRacedDelete(p, q)
        /\ h[p].err = NoErr
        /\ h[q].pre = h[p].post
        /\ h[q].err = NoErr

\* Two Deletes of one id, both made while its row was there, and both
\* returned.
DeletesRaced(p, q) ==
    /\ p # q
    /\ Done(p, "Delete") /\ Done(q, "Delete")
    /\ h[p].id = h[q].id
    /\ h[p].atCall # NoRow /\ h[q].atCall # NoRow

\* C20: of two Deletes racing on the same existing id exactly one returns
\* success, the one whose statement removed the row; the other returns
\* ErrRecordNotFound; the row is gone afterwards.
C20_DeleteVersusDelete ==
    \A p, q \in Procs :
        DeletesRaced(p, q) =>
            /\ Lookup(h[p].id) = NoRow
            /\ Gone(h[p].id)
            /\ \/ /\ h[p].err = NoErr /\ h[p].pre # NoRow
                  /\ h[q].err = ErrRecordNotFound /\ h[q].pre = NoRow
               \/ /\ h[q].err = NoErr /\ h[q].pre # NoRow
                  /\ h[p].err = ErrRecordNotFound /\ h[p].pre = NoRow

C20_Witness ==
    \E p, q \in Procs :
        /\ DeletesRaced(p, q)
        /\ h[p].err = NoErr
        /\ h[q].err = ErrRecordNotFound
        /\ h[p].atCall = h[q].atCall

====
